---- MODULE Spec2Model ----
(***************************************************************************)
(* Model of SymbianSerialPortEngine (src/src/serialportengine_symbian.cpp) *)
(* together with the serial device it drives.  Engines share one device    *)
(* location; the device grants one exclusive handle at a time.             *)
(***************************************************************************)
EXTENDS Integers, Sequences, FiniteSets, TLC

(* ------------------------------ bounds -------------------------------- *)

\* Number of setter calls explored over a whole behaviour.
MaxSetCalls == 2

\* Number of open() calls explored over a whole behaviour.
MaxOpens == 2

\* Largest finite select() timeout explored (milliseconds).
MaxTimeout == 1

(* ------------------------- platform vocabulary ------------------------ *)

Engines == {"e1", "e2"}
NoEngine == "none"

KErrNone == "KErrNone"
KErrGeneral == "KErrGeneral"
KErrNotFound == "KErrNotFound"
KErrPermissionDenied == "KErrPermissionDenied"
KErrLocked == "KErrLocked"
KErrAccessDenied == "KErrAccessDenied"

NoError == "NoError"
UnknownPortError == "UnknownPortError"
NoSuchDeviceError == "NoSuchDeviceError"
PermissionDeniedError == "PermissionDeniedError"
UnsupportedPortOperationError == "UnsupportedPortOperationError"
IoError == "IoError"

AllDirections == "AllDirections"

\* TBps of the platform header, in declaration order: an enumerator's value
\* is its position, counted from zero.
TBps ==
  << "EBps50", "EBps75", "EBps110", "EBps134", "EBps150", "EBps300",
     "EBps600", "EBps1200", "EBps1800", "EBps2000", "EBps2400", "EBps3600",
     "EBps4800", "EBps7200", "EBps9600", "EBps19200", "EBps38400",
     "EBps57600", "EBps115200", "EBps230400", "EBps460800", "EBps576000",
     "EBps1152000", "EBps4000000", "EBps921600" >>

EBps(name) == (CHOOSE i \in 1..Len(TBps) : TBps[i] = name) - 1

(* ------------------------------ Rate Table ---------------------------- *)

RatePair(rate, name) == [rate |-> rate, setting |-> EBps(name)]

\* The table with its last three entries in the order of the platform
\* enumeration instead of the order of their rates.
standardRatesTable_EnumOrder ==
  << RatePair(50, "EBps50"), RatePair(75, "EBps75"),
     RatePair(110, "EBps110"), RatePair(134, "EBps134"),
     RatePair(150, "EBps150"), RatePair(300, "EBps300"),
     RatePair(600, "EBps600"), RatePair(1200, "EBps1200"),
     RatePair(1800, "EBps1800"), RatePair(2000, "EBps2000"),
     RatePair(2400, "EBps2400"), RatePair(3600, "EBps3600"),
     RatePair(4800, "EBps4800"), RatePair(7200, "EBps7200"),
     RatePair(9600, "EBps9600"), RatePair(19200, "EBps19200"),
     RatePair(38400, "EBps38400"), RatePair(57600, "EBps57600"),
     RatePair(115200, "EBps115200"), RatePair(230400, "EBps230400"),
     RatePair(460800, "EBps460800"), RatePair(576000, "EBps576000"),
     RatePair(1152000, "EBps1152000"), RatePair(4000000, "EBps4000000"),
     RatePair(921600, "EBps921600") >>

standardRatesTable ==
  << RatePair(50, "EBps50"), RatePair(75, "EBps75"),
     RatePair(110, "EBps110"), RatePair(134, "EBps134"),
     RatePair(150, "EBps150"), RatePair(300, "EBps300"),
     RatePair(600, "EBps600"), RatePair(1200, "EBps1200"),
     RatePair(1800, "EBps1800"), RatePair(2000, "EBps2000"),
     RatePair(2400, "EBps2400"), RatePair(3600, "EBps3600"),
     RatePair(4800, "EBps4800"), RatePair(7200, "EBps7200"),
     RatePair(9600, "EBps9600"), RatePair(19200, "EBps19200"),
     RatePair(38400, "EBps38400"), RatePair(57600, "EBps57600"),
     RatePair(115200, "EBps115200"), RatePair(230400, "EBps230400"),
     RatePair(460800, "EBps460800"), RatePair(576000, "EBps576000"),
     RatePair(921600, "EBps921600"), RatePair(1152000, "EBps1152000"),
     RatePair(4000000, "EBps4000000") >>

standardRatesTable_end == Len(standardRatesTable) + 1

\* qFind: first index whose element == rp (RatePair::operator== compares
\* settings), or the end index.
RECURSIVE qFind(_, _)
qFind(i, setting) ==
  IF i = standardRatesTable_end THEN standardRatesTable_end
  ELSE IF standardRatesTable[i].setting = setting THEN i
  ELSE qFind(i + 1, setting)

\* The lookup taking the token for the entry's position in the table.
rateFromSetting_ByIndex(setting) ==
  IF setting + 1 < standardRatesTable_end
  THEN standardRatesTable[setting + 1].rate
  ELSE 0

rateFromSetting(setting) ==
  LET ret == qFind(1, setting)
  IN  IF ret # standardRatesTable_end THEN standardRatesTable[ret].rate ELSE 0

\* qLowerBound over [lo, lo+n) with RatePair::operator< (compares rates).
RECURSIVE qLowerBound(_, _, _)
qLowerBound(lo, n, rate) ==
  IF n <= 0 THEN lo
  ELSE LET half == n \div 2
           mid == lo + half
       IN  IF standardRatesTable[mid].rate < rate
           THEN qLowerBound(mid + 1, n - half - 1, rate)
           ELSE qLowerBound(lo, half, rate)

\* qBinaryFind: the lower bound if it is not past the end and the value is
\* not less than it, else the end index.
qBinaryFind(rate) ==
  LET it == qLowerBound(1, Len(standardRatesTable), rate)
  IN  IF it = standardRatesTable_end \/ rate < standardRatesTable[it].rate
      THEN standardRatesTable_end
      ELSE it

settingFromRate(rate) ==
  LET ret == qBinaryFind(rate)
  IN  IF ret # standardRatesTable_end THEN standardRatesTable[ret].setting ELSE 0

RECURSIVE standardRatesFrom(_)
standardRatesFrom(i) ==
  IF i = standardRatesTable_end THEN << >>
  ELSE << standardRatesTable[i].rate >> \o standardRatesFrom(i + 1)

standardRates == standardRatesFrom(1)

(* --------------------- native <-> portable mapping -------------------- *)

\* Detection testing the hardware-flow bits before the software-flow bits.
detectDefaultSettings_HardwareFirst(cfg) ==
  LET inputRate == rateFromSetting(cfg.iRate)
  IN  [ inputRate  |-> inputRate,
        outputRate |-> inputRate,
        dataBits   |-> CASE cfg.iDataBits = "EData5" -> "Data5"
                         [] cfg.iDataBits = "EData6" -> "Data6"
                         [] cfg.iDataBits = "EData7" -> "Data7"
                         [] cfg.iDataBits = "EData8" -> "Data8"
                         [] OTHER -> "UnknownDataBits",
        parity     |-> CASE cfg.iParity = "EParityNone" -> "NoParity"
                         [] cfg.iParity = "EParityEven" -> "EvenParity"
                         [] cfg.iParity = "EParityOdd" -> "OddParity"
                         [] cfg.iParity = "EParityMark" -> "MarkParity"
                         [] cfg.iParity = "EParitySpace" -> "SpaceParity"
                         [] OTHER -> "UnknownParity",
        stopBits   |-> CASE cfg.iStopBits = "EStop1" -> "OneStop"
                         [] cfg.iStopBits = "EStop2" -> "TwoStop"
                         [] OTHER -> "UnknownStopBits",
        flow       |-> IF cfg.iHandshake \cap {"KConfigObeyCTS", "KConfigFreeRTS"}
                            = {"KConfigObeyCTS", "KConfigFreeRTS"}
                       THEN "HardwareControl"
                       ELSE IF cfg.iHandshake \cap {"KConfigObeyXoff", "KConfigSendXoff"}
                                 = {"KConfigObeyXoff", "KConfigSendXoff"}
                       THEN "SoftwareControl"
                       ELSE IF cfg.iHandshake \cap {"KConfigFailDSR"} # {}
                       THEN "NoFlowControl"
                       ELSE "UnknownFlowControl" ]

\* detectDefaultSettings: the portable options detected from a native
\* configuration.
detectDefaultSettings(cfg) ==
  LET inputRate == rateFromSetting(cfg.iRate)
  IN  [ inputRate  |-> inputRate,
        outputRate |-> inputRate,
        dataBits   |-> CASE cfg.iDataBits = "EData5" -> "Data5"
                         [] cfg.iDataBits = "EData6" -> "Data6"
                         [] cfg.iDataBits = "EData7" -> "Data7"
                         [] cfg.iDataBits = "EData8" -> "Data8"
                         [] OTHER -> "UnknownDataBits",
        parity     |-> CASE cfg.iParity = "EParityNone" -> "NoParity"
                         [] cfg.iParity = "EParityEven" -> "EvenParity"
                         [] cfg.iParity = "EParityOdd" -> "OddParity"
                         [] cfg.iParity = "EParityMark" -> "MarkParity"
                         [] cfg.iParity = "EParitySpace" -> "SpaceParity"
                         [] OTHER -> "UnknownParity",
        stopBits   |-> CASE cfg.iStopBits = "EStop1" -> "OneStop"
                         [] cfg.iStopBits = "EStop2" -> "TwoStop"
                         [] OTHER -> "UnknownStopBits",
        flow       |-> IF cfg.iHandshake \cap {"KConfigObeyXoff", "KConfigSendXoff"}
                            = {"KConfigObeyXoff", "KConfigSendXoff"}
                       THEN "SoftwareControl"
                       ELSE IF cfg.iHandshake \cap {"KConfigObeyCTS", "KConfigFreeRTS"}
                                 = {"KConfigObeyCTS", "KConfigFreeRTS"}
                       THEN "HardwareControl"
                       ELSE IF cfg.iHandshake \cap {"KConfigFailDSR"} # {}
                       THEN "NoFlowControl"
                       ELSE "UnknownFlowControl" ]

\* The validation half of each setter: the native field value for a portable
\* value, or "invalid" for the default arm of the switch.
DataBitsToNative(dataBits) ==
  CASE dataBits = "Data5" -> "EData5"
    [] dataBits = "Data6" -> "EData6"
    [] dataBits = "Data7" -> "EData7"
    [] dataBits = "Data8" -> "EData8"
    [] OTHER -> "invalid"

ParityToNative(parity) ==
  CASE parity = "NoParity" -> "EParityNone"
    [] parity = "EvenParity" -> "EParityEven"
    [] parity = "OddParity" -> "EParityOdd"
    [] parity = "MarkParity" -> "EParityMark"
    [] parity = "SpaceParity" -> "EParitySpace"
    [] OTHER -> "invalid"

StopBitsToNative(stopBits) ==
  CASE stopBits = "OneStop" -> "EStop1"
    [] stopBits = "TwoStop" -> "EStop2"
    [] OTHER -> "invalid"

FlowToNative(flow) ==
  CASE flow = "NoFlowControl" -> {"KConfigFailDSR"}
    [] flow = "HardwareControl" -> {"KConfigObeyCTS", "KConfigFreeRTS"}
    [] flow = "SoftwareControl" -> {"KConfigObeyXoff", "KConfigSendXoff"}
    [] OTHER -> {"invalid"}

(* ------------------------------- state -------------------------------- *)

VARIABLES
  devHolder,           \* the engine holding the device's exclusive handle
  devConfig,           \* the device's native configuration
  m_descriptor,        \* per engine: the RComm handle is open
  m_restoredSettings,  \* per engine: configuration read back by open()
  m_currentSettings,   \* per engine: working configuration the setters edit
  options,             \* per engine: dptr->options of the owning port
  portOpen,            \* per engine: the owning port considers itself open
  last,                \* the most recent call: who, what, and what it returned
  configAtOpen,        \* per engine: devConfig when open() read it back
  setCalls,            \* setter calls made so far
  openCalls            \* open() calls made so far

lifeVars == << devHolder, devConfig, m_descriptor, m_restoredSettings,
               m_currentSettings, options, portOpen, last,
               configAtOpen, setCalls, openCalls >>

\* Configurations a device may power up with.
DeviceDefaultConfig ==
  [iRate |-> EBps("EBps9600"), iDataBits |-> "EData8",
   iParity |-> "EParityNone", iStopBits |-> "EStop1",
   iHandshake |-> {"KConfigFailDSR"}]

DeviceConfigs == {DeviceDefaultConfig}

\* m_currentSettings is a TCommConfig member that no constructor fills in:
\* its first contents are indeterminate.
ZeroConfig ==
  [iRate |-> 0, iDataBits |-> "EData5", iParity |-> "EParityNone",
   iStopBits |-> "EStop1", iHandshake |-> {}]

JunkConfig ==
  [iRate |-> EBps("EBps115200"), iDataBits |-> "EData6",
   iParity |-> "EParityOther", iStopBits |-> "EStop2",
   iHandshake |-> {"KConfigObeyXoff", "KConfigSendXoff", "KConfigFailDSR"}]

IndeterminateConfigs == {ZeroConfig, JunkConfig}

InitOptions ==
  [inputRate |-> 0, outputRate |-> 0, dataBits |-> "UnknownDataBits",
   parity |-> "UnknownParity", stopBits |-> "UnknownStopBits",
   flow |-> "UnknownFlowControl"]

NoCall == [eng |-> NoEngine, op |-> "none", ok |-> FALSE, dev |-> "none",
           errors |-> << >>, devBefore |-> DeviceDefaultConfig]

InitLife ==
  /\ devHolder = NoEngine
  /\ devConfig \in DeviceConfigs
  /\ m_descriptor = [e \in Engines |-> FALSE]
  /\ m_currentSettings \in [Engines -> IndeterminateConfigs]
  /\ m_restoredSettings = m_currentSettings
  /\ options = [e \in Engines |-> InitOptions]
  /\ portOpen = [e \in Engines |-> FALSE]
  /\ last = NoCall
  /\ configAtOpen = m_currentSettings
  /\ setCalls = 0
  /\ openCalls = 0

(* ------------------------------ open/close ---------------------------- *)

\* Results RComm::Open(server, name, ECommExclusive) can give: success only
\* while nobody holds the device; a held device refuses with a lock code.
DeviceOpenResults ==
  IF devHolder = NoEngine
  THEN {KErrNone, KErrNotFound, KErrPermissionDenied, KErrGeneral}
  ELSE {KErrAccessDenied, KErrLocked}

\* The switch with the KErrAccessDenied label left out.
OpenError_NoAccessDeniedCase(r) ==
  CASE r = KErrPermissionDenied -> NoSuchDeviceError
    [] r = KErrLocked -> PermissionDeniedError
    [] OTHER -> UnknownPortError

\* The switch on the failure code of m_descriptor.Open.
OpenError(r) ==
  CASE r = KErrPermissionDenied -> NoSuchDeviceError
    [] r = KErrLocked -> PermissionDeniedError
    [] r = KErrAccessDenied -> PermissionDeniedError
    [] OTHER -> UnknownPortError

\* ok is the call's return value, dev the result of its last device call,
\* errors the kinds it passed to dptr->setError, in order, devBefore the
\* device's configuration when the call was made.
Returned(e, op, ok, dev, errors) ==
  last' = [eng |-> e, op |-> op, ok |-> ok, dev |-> dev, errors |-> errors,
           devBefore |-> devConfig]

Open(e, devicesLoaded, rConnect, rLoad, rOpen, rConfig) ==
  /\ ~portOpen[e]
  /\ rOpen \in DeviceOpenResults
  /\ IF ~devicesLoaded \/ rConnect # KErrNone \/ rLoad # KErrNone
     THEN /\ Returned(e, "open", FALSE, "none", << UnknownPortError >>)
          /\ UNCHANGED << devHolder, devConfig, m_descriptor,
                          m_restoredSettings, options, portOpen, configAtOpen >>
     ELSE IF rOpen # KErrNone
     THEN /\ Returned(e, "open", FALSE, rOpen, << OpenError(rOpen) >>)
          /\ UNCHANGED << devHolder, devConfig, m_descriptor,
                          m_restoredSettings, options, portOpen, configAtOpen >>
     ELSE /\ devHolder' = e
          /\ m_descriptor' = [m_descriptor EXCEPT ![e] = TRUE]
          /\ IF rConfig # KErrNone
             THEN /\ Returned(e, "open", FALSE, rConfig, << UnknownPortError >>)
                  /\ UNCHANGED << devConfig, m_restoredSettings, options,
                                  portOpen, configAtOpen >>
             ELSE /\ m_restoredSettings' =
                       [m_restoredSettings EXCEPT ![e] = devConfig]
                  /\ configAtOpen' = [configAtOpen EXCEPT ![e] = devConfig]
                  /\ options' = [options EXCEPT ![e] =
                       detectDefaultSettings(m_currentSettings[e])]
                  /\ portOpen' = [portOpen EXCEPT ![e] = TRUE]
                  /\ Returned(e, "open", TRUE, KErrNone, << >>)
                  /\ UNCHANGED devConfig
  /\ UNCHANGED m_currentSettings

\* close() writing back the working configuration instead of the saved one.
CloseRestoredConfig_Working(e) == m_currentSettings[e]

\* The configuration close() writes back.
CloseRestoredConfig(e) == m_restoredSettings[e]

\* close() returning early, handle still open, when the restore write fails.
Close_KeepsHandleOnFailedRestore(e, restoreSettingsOnClose, rSetConfig) ==
  /\ portOpen[e]
  /\ devConfig' = IF restoreSettingsOnClose /\ rSetConfig = KErrNone
                  THEN CloseRestoredConfig(e)
                  ELSE devConfig
  /\ IF restoreSettingsOnClose /\ rSetConfig # KErrNone
     THEN UNCHANGED << m_descriptor, devHolder >>
     ELSE /\ m_descriptor' = [m_descriptor EXCEPT ![e] = FALSE]
          /\ devHolder' = NoEngine
  /\ portOpen' = [portOpen EXCEPT ![e] = FALSE]
  /\ Returned(e, "close", TRUE,
              IF restoreSettingsOnClose THEN rSetConfig ELSE "none", << >>)
  /\ UNCHANGED << m_restoredSettings, m_currentSettings, options,
                  configAtOpen >>

\* restoreSettingsOnClose is what dptr->options.restoreSettingsOnClose, a
\* flag the owning port keeps, holds when close() reads it.
Close(e, restoreSettingsOnClose, rSetConfig) ==
  /\ portOpen[e]
  /\ devConfig' = IF restoreSettingsOnClose /\ rSetConfig = KErrNone
                  THEN CloseRestoredConfig(e)
                  ELSE devConfig
  /\ m_descriptor' = [m_descriptor EXCEPT ![e] = FALSE]
  /\ devHolder' = NoEngine
  /\ portOpen' = [portOpen EXCEPT ![e] = FALSE]
  /\ Returned(e, "close", TRUE,
              IF restoreSettingsOnClose THEN rSetConfig ELSE "none", << >>)
  /\ UNCHANGED << m_restoredSettings, m_currentSettings, options,
                  configAtOpen >>

(* -------------------------------- setters ----------------------------- *)

\* updateCommConfig with the working configuration as the setter left it.
updateCommConfig(e, op, settings, rSetConfig) ==
  /\ m_currentSettings' = [m_currentSettings EXCEPT ![e] = settings]
  /\ IF rSetConfig # KErrNone
     THEN /\ Returned(e, op, FALSE, rSetConfig,
                      << UnsupportedPortOperationError >>)
          /\ UNCHANGED devConfig
     ELSE /\ devConfig' = settings
          /\ Returned(e, op, TRUE, KErrNone, << >>)

\* The default arm of a setter returning false without recording an error.
Unsupported_NoError(e, op) ==
  /\ Returned(e, op, FALSE, "none", << >>)
  /\ UNCHANGED << devConfig, m_currentSettings >>

\* The default arm of a setter: nothing is written, nothing is pushed.
Unsupported(e, op) ==
  /\ Returned(e, op, FALSE, "none", << UnsupportedPortOperationError >>)
  /\ UNCHANGED << devConfig, m_currentSettings >>

SetterFrame(e) ==
  /\ portOpen[e]
  /\ UNCHANGED << devHolder, m_descriptor, m_restoredSettings, options,
                  portOpen, configAtOpen >>

SetRate(e, rate, dir, rSetConfig) ==
  /\ SetterFrame(e)
  /\ IF dir # AllDirections
     THEN Unsupported(e, "setRate")
     ELSE LET setting == settingFromRate(rate)
          IN  IF setting # 0
              THEN updateCommConfig(e, "setRate",
                     [m_currentSettings[e] EXCEPT !.iRate = setting], rSetConfig)
              ELSE Unsupported(e, "setRate")

SetDataBits(e, dataBits, rSetConfig) ==
  /\ SetterFrame(e)
  /\ IF DataBitsToNative(dataBits) # "invalid"
     THEN updateCommConfig(e, "setDataBits",
            [m_currentSettings[e] EXCEPT !.iDataBits = DataBitsToNative(dataBits)],
            rSetConfig)
     ELSE Unsupported(e, "setDataBits")

SetParity(e, parity, rSetConfig) ==
  /\ SetterFrame(e)
  /\ IF ParityToNative(parity) # "invalid"
     THEN updateCommConfig(e, "setParity",
            [m_currentSettings[e] EXCEPT !.iParity = ParityToNative(parity)],
            rSetConfig)
     ELSE Unsupported(e, "setParity")

SetStopBits(e, stopBits, rSetConfig) ==
  /\ SetterFrame(e)
  /\ IF StopBitsToNative(stopBits) # "invalid"
     THEN updateCommConfig(e, "setStopBits",
            [m_currentSettings[e] EXCEPT !.iStopBits = StopBitsToNative(stopBits)],
            rSetConfig)
     ELSE Unsupported(e, "setStopBits")

SetFlowControl(e, flow, rSetConfig) ==
  /\ SetterFrame(e)
  /\ IF FlowToNative(flow) # {"invalid"}
     THEN updateCommConfig(e, "setFlowControl",
            [m_currentSettings[e] EXCEPT !.iHandshake = FlowToNative(flow)],
            rSetConfig)
     ELSE Unsupported(e, "setFlowControl")

(* -------------------------------- select ------------------------------ *)

VARIABLES
  selPc,           \* "idle", "waiting" (in WaitForNRequest), "returned", "blocked"
  selArgs,         \* timeout, checkRead, checkWrite of the call
  selectForRead,   \* the caller's output flag *selectForRead
  selectForWrite,  \* the caller's output flag *selectForWrite
  selResult,       \* what select() returned
  m_selectTimer,   \* m_selectTimer.Handle() is not null
  status,          \* timerStatus, readStatus, writeStatus of the call
  armed,           \* the sources this call issued a request on
  outstanding,     \* the requests of this call neither completed nor cancelled
  selWake          \* the statuses and flags select() found when the wait woke

selVars == << selPc, selArgs, selectForRead, selectForWrite, selResult,
              m_selectTimer, status, armed, outstanding, selWake >>

SelEngine == "e1"
Sources == {"timer", "read", "write"}
KRequestPending == "KRequestPending"
Completed == "Completed"

\* -1 stands for "wait indefinitely".
Timeouts == (-1) .. MaxTimeout

NoWake == [timer |-> "none", read |-> "none", write |-> "none",
           forRead |-> FALSE, forWrite |-> FALSE]

InitSelect ==
  /\ selPc = "idle"
  /\ selArgs = [timeout |-> 0, checkRead |-> FALSE, checkWrite |-> FALSE]
  /\ selectForRead = FALSE
  /\ selectForWrite = FALSE
  /\ selResult = FALSE
  /\ m_selectTimer = FALSE
  /\ status = [s \in Sources |-> Completed]
  /\ armed = {}
  /\ outstanding = {}
  /\ selWake = NoWake

\* select() up to the wait.  forRead/forWrite are what the caller's flags hold
\* on entry; junk is what the three TRequestStatus locals hold before any
\* request is issued on them (they are declared without a value).  Requests
\* an earlier call left outstanding complete against that call's dead locals
\* and are not followed into the next call.
SelectCall(timeout, checkRead, checkWrite, forRead, forWrite, rCreateLocal, junk) ==
  /\ selPc \in {"idle", "returned"}
  /\ portOpen[SelEngine]
  /\ selArgs' = [timeout |-> timeout, checkRead |-> checkRead,
                 checkWrite |-> checkWrite]
  /\ selectForRead' = forRead
  /\ selectForWrite' = forWrite
  /\ selWake' = NoWake
  /\ IF timeout > 0 /\ ~m_selectTimer /\ rCreateLocal # KErrNone
     THEN /\ selPc' = "returned"
          /\ selResult' = FALSE
          /\ status' = junk
          /\ armed' = {}
          /\ outstanding' = {}
          /\ UNCHANGED m_selectTimer
     ELSE LET issued == (IF timeout > 0 THEN {"timer"} ELSE {})
                          \cup (IF checkRead THEN {"read"} ELSE {})
                          \cup (IF checkWrite THEN {"write"} ELSE {})
          IN  /\ m_selectTimer' = (m_selectTimer \/ timeout > 0)
              /\ status' = [s \in Sources |->
                              IF s \in issued THEN KRequestPending ELSE junk[s]]
              /\ armed' = issued
              /\ outstanding' = issued
              /\ selPc' = "waiting"
              /\ UNCHANGED selResult

\* An outstanding request completes: the timer expires, data arrives, or the
\* output buffer drains.
Complete(s) ==
  /\ selPc = "waiting"
  /\ s \in outstanding
  /\ status' = [status EXCEPT ![s] = Completed]
  /\ outstanding' = outstanding \ {s}
  /\ UNCHANGED << selPc, selArgs, selectForRead, selectForWrite, selResult,
                  m_selectTimer, armed, selWake >>

TimerComplete == Complete("timer")
ReadComplete == Complete("read")
WriteComplete == Complete("write")

\* The watches select() cancels on the path where the timer is still pending.
FiredCancels ==
  {"timer"} \cup (IF selArgs.checkRead THEN {"read"} ELSE {})
            \cup (IF selArgs.checkWrite THEN {"write"} ELSE {})

\* The watches select() cancels on the path where the timer has completed.
TimedOutCancels == {}

\* select() from the return of WaitForNRequest to its own return.  The wait
\* returns once a request of this call has completed.
SelectWake ==
  /\ selPc = "waiting"
  /\ \E s \in armed : status[s] # KRequestPending
  /\ selWake' = [timer |-> status["timer"], read |-> status["read"],
                 write |-> status["write"],
                 forRead |-> selectForRead, forWrite |-> selectForWrite]
  /\ IF status["timer"] # KRequestPending
     THEN /\ selectForRead' = FALSE
          /\ selectForWrite' = FALSE
          /\ selResult' = FALSE
          /\ outstanding' = outstanding \ TimedOutCancels
          /\ selPc' = "returned"
          /\ UNCHANGED status
     ELSE IF "timer" \notin armed
     THEN \* WaitForRequest(timerStatus) on a status no request will complete
          /\ selPc' = "blocked"
          /\ UNCHANGED << selectForRead, selectForWrite, selResult, status,
                          outstanding >>
     ELSE /\ status' = [status EXCEPT !["timer"] = Completed]
          /\ selectForRead' =
               (IF status["read"] # KRequestPending THEN TRUE ELSE selectForRead)
          /\ selectForWrite' =
               (IF status["write"] # KRequestPending THEN TRUE ELSE selectForWrite)
          /\ outstanding' = outstanding \ FiredCancels
          /\ selResult' = TRUE
          /\ selPc' = "returned"
  /\ UNCHANGED << selArgs, m_selectTimer, armed >>

(* ------------------------- Rate Table lookups ------------------------- *)

VARIABLES
  rateArg,       \* the numeric rate a caller looks up
  settingArg,    \* the native token a caller looks up
  toSetting,     \* << settingFromRate(rateArg) >> once called
  toRate,        \* << rateFromSetting(settingArg) >> once called
  backRate,      \* << rateFromSetting(toSetting[1]) >> once called
  backSetting,   \* << settingFromRate(toRate[1]) >> once called
  ratesRet       \* << standardRates() >> once called

tabVars == << rateArg, settingArg, toSetting, toRate, backRate, backSetting,
              ratesRet >>

InitTabIdle ==
  /\ rateArg = 0
  /\ settingArg = 0
  /\ toSetting = << >>
  /\ toRate = << >>
  /\ backRate = << >>
  /\ backSetting = << >>
  /\ ratesRet = << >>

CallSettingFromRate ==
  /\ toSetting = << >>
  /\ toSetting' = << settingFromRate(rateArg) >>
  /\ UNCHANGED << rateArg, settingArg, toRate, backRate, backSetting, ratesRet >>

CallRateFromSetting ==
  /\ toRate = << >>
  /\ toRate' = << rateFromSetting(settingArg) >>
  /\ UNCHANGED << rateArg, settingArg, toSetting, backRate, backSetting, ratesRet >>

\* rateFromSetting on what settingFromRate returned.
CallRateFromSettingBack ==
  /\ toSetting # << >>
  /\ backRate = << >>
  /\ backRate' = << rateFromSetting(toSetting[1]) >>
  /\ UNCHANGED << rateArg, settingArg, toSetting, toRate, backSetting, ratesRet >>

\* settingFromRate on what rateFromSetting returned.
CallSettingFromRateBack ==
  /\ toRate # << >>
  /\ backSetting = << >>
  /\ backSetting' = << settingFromRate(toRate[1]) >>
  /\ UNCHANGED << rateArg, settingArg, toSetting, toRate, backRate, ratesRet >>

CallStandardRates ==
  /\ ratesRet = << >>
  /\ ratesRet' = << standardRates >>
  /\ UNCHANGED << rateArg, settingArg, toSetting, toRate, backRate, backSetting >>

(* ------------------------- detection on its own ----------------------- *)

VARIABLES
  detIn,    \* the native configuration detection reads
  detOut    \* << the portable options detected >> once detection has run

detVars == << detIn, detOut >>

InitDetIdle ==
  /\ detIn = ZeroConfig
  /\ detOut = << >>

Detect ==
  /\ detOut = << >>
  /\ detOut' = << detectDefaultSettings(detIn) >>
  /\ UNCHANGED detIn

(* ------------------------ control lines, buffers, data ---------------- *)

VARIABLES
  signals,    \* the control lines the device holds asserted
  linesRet,   \* << the mask lines() returned >> once called
  dtrSet,     \* << set >> of the latest setDtr(set) that returned true
  rtsSet,     \* << set >> of the latest setRts(set) that returned true
  requests    \* the device requests issued and neither completed nor cancelled

sigVars == << signals, linesRet, dtrSet, rtsSet, requests >>

IoEngine == "e1"

KSignals ==
  {"KSignalCTS", "KSignalDSR", "KSignalDCD", "KSignalRNG", "KSignalRTS",
   "KSignalDTR"}

InitSigIdle ==
  /\ signals = {}
  /\ linesRet = << >>
  /\ dtrSet = << >>
  /\ rtsSet = << >>
  /\ requests = {}

IoFrame ==
  UNCHANGED << devHolder, devConfig, m_descriptor, m_restoredSettings,
               m_currentSettings, options, portOpen, configAtOpen >>

\* RComm::Signals(aSignalMask): the state of the lines named in the mask,
\* handed back as the call's value; the argument is passed by value.
Signals(aSignalMask) == signals \cap aSignalMask

\* lines(): signalMask is a local set to 0; the value Signals() hands back
\* is dropped, and the tests read the local.
Lines(e) ==
  LET signalMask == {}
      dropped == Signals(signalMask)
      ret == (IF "KSignalCTS" \in signalMask THEN {"Cts"} ELSE {})
               \cup (IF "KSignalDSR" \in signalMask THEN {"Dsr"} ELSE {})
               \cup (IF "KSignalDCD" \in signalMask THEN {"Dcd"} ELSE {})
               \cup (IF "KSignalRNG" \in signalMask THEN {"Ri"} ELSE {})
               \cup (IF "KSignalRTS" \in signalMask THEN {"Rts"} ELSE {})
               \cup (IF "KSignalDTR" \in signalMask THEN {"Dtr"} ELSE {})
  IN  /\ portOpen[e]
      /\ linesRet' = << ret >>
      /\ Returned(e, "lines", TRUE, "none", << >>)
      /\ IoFrame
      /\ UNCHANGED << signals, dtrSet, rtsSet, requests >>

\* SetSignalsToMark / SetSignalsToSpace: an accepted call asserts or drops
\* the named line, a refused call leaves the lines alone.
SetSignals(set, signal, r) ==
  signals' = IF r # KErrNone THEN signals
             ELSE IF set THEN signals \cup {signal}
             ELSE signals \ {signal}

SetDtr(e, set, r) ==
  /\ portOpen[e]
  /\ SetSignals(set, "KSignalDTR", r)
  /\ dtrSet' = IF r = KErrNone THEN << set >> ELSE dtrSet
  /\ Returned(e, "setDtr", r = KErrNone, r, << >>)
  /\ IoFrame
  /\ UNCHANGED << linesRet, rtsSet, requests >>

SetRts(e, set, r) ==
  /\ portOpen[e]
  /\ SetSignals(set, "KSignalRTS", r)
  /\ rtsSet' = IF r = KErrNone THEN << set >> ELSE rtsSet
  /\ Returned(e, "setRts", r = KErrNone, r, << >>)
  /\ IoFrame
  /\ UNCHANGED << linesRet, dtrSet, requests >>

Reset(e, r) ==
  /\ portOpen[e]
  /\ Returned(e, "reset", r = KErrNone, r, << >>)
  /\ IoFrame
  /\ UNCHANGED sigVars

\* An asynchronous call on m_descriptor with a TRequestStatus: the request
\* is outstanding from then on.
Issue(reqs, request) == reqs \cup {request}

\* User::WaitForRequest(status): returns once the request has completed.
WaitForRequest(reqs, request) == reqs \ {request}

\* read() and write(): err is what the completed request's status holds; ok
\* stands for a return value other than -1.
Read(e, err) ==
  /\ portOpen[e]
  /\ requests' = WaitForRequest(Issue(requests, "read"), "read")
  /\ Returned(e, "read", err = KErrNone, err,
              IF err # KErrNone THEN << IoError >> ELSE << >>)
  /\ IoFrame
  /\ UNCHANGED << signals, linesRet, dtrSet, rtsSet >>

Write(e, err) ==
  /\ portOpen[e]
  /\ requests' = WaitForRequest(Issue(requests, "write"), "write")
  /\ Returned(e, "write", err = KErrNone, err,
              IF err # KErrNone THEN << IoError >> ELSE << >>)
  /\ IoFrame
  /\ UNCHANGED << signals, linesRet, dtrSet, rtsSet >>

\* sendBreak(): issues the break request on a local status and returns
\* false at once.  A call made while a break request is outstanding is not
\* followed.
SendBreak(e, duration) ==
  /\ portOpen[e]
  /\ "break" \notin requests
  /\ requests' = Issue(requests, "break")
  /\ Returned(e, "sendBreak", FALSE, "none", << >>)
  /\ IoFrame
  /\ UNCHANGED << signals, linesRet, dtrSet, rtsSet >>

\* The device ends the break once its duration has passed and completes the
\* request.
BreakComplete ==
  /\ "break" \in requests
  /\ requests' = requests \ {"break"}
  /\ UNCHANGED << signals, linesRet, dtrSet, rtsSet >>
  /\ UNCHANGED lifeVars

auxVars == << tabVars, detVars, sigVars >>

InitAuxIdle == InitTabIdle /\ InitDetIdle /\ InitSigIdle

(* ------------------- setters followed by detection -------------------- *)

VARIABLES
  reqP,      \* the portable configuration handed to the setters
  cfgStep,   \* how many of the five setters, then the detection, have run
  cfgOk      \* every setter so far returned true

cfgVars == << reqP, cfgStep, cfgOk >>

CfgEngine == "e1"

ValidConfigs ==
  [rate : {standardRatesTable[i].rate : i \in 1..Len(standardRatesTable)},
   dataBits : {"Data5", "Data6", "Data7", "Data8"},
   parity : {"NoParity", "EvenParity", "OddParity", "MarkParity", "SpaceParity"},
   stopBits : {"OneStop", "TwoStop"},
   flow : {"NoFlowControl", "HardwareControl", "SoftwareControl"}]

InitCfgIdle ==
  /\ reqP = [rate |-> 9600, dataBits |-> "Data8", parity |-> "NoParity",
             stopBits |-> "OneStop", flow |-> "NoFlowControl"]
  /\ cfgStep = 0
  /\ cfgOk = TRUE

CfgNext(step) ==
  /\ cfgStep = step
  /\ cfgStep' = step + 1
  /\ cfgOk' = (cfgOk /\ last'.ok)
  /\ UNCHANGED << reqP, setCalls, openCalls >>
  /\ UNCHANGED << selVars, auxVars >>

CfgSetRate == SetRate(CfgEngine, reqP.rate, AllDirections, KErrNone) /\ CfgNext(0)
CfgSetDataBits == SetDataBits(CfgEngine, reqP.dataBits, KErrNone) /\ CfgNext(1)
CfgSetParity == SetParity(CfgEngine, reqP.parity, KErrNone) /\ CfgNext(2)
CfgSetStopBits == SetStopBits(CfgEngine, reqP.stopBits, KErrNone) /\ CfgNext(3)
CfgSetFlowControl == SetFlowControl(CfgEngine, reqP.flow, KErrNone) /\ CfgNext(4)

CfgDetect ==
  /\ cfgStep = 5
  /\ cfgStep' = 6
  /\ options' = [options EXCEPT ![CfgEngine] =
       detectDefaultSettings(m_currentSettings[CfgEngine])]
  /\ UNCHANGED << devHolder, devConfig, m_descriptor, m_restoredSettings,
                  m_currentSettings, portOpen, last, configAtOpen,
                  setCalls, openCalls, reqP, cfgOk >>
  /\ UNCHANGED << selVars, auxVars >>

(* --------------------------- specifications --------------------------- *)

vars == << lifeVars, selVars, cfgVars, auxVars >>

\* Inputs the callers pass in the lifecycle specification.
RateInputs == {50, 19200, 12345}
DirInputs == {AllDirections, "Input"}
DataBitsInputs == {"Data7", "UnknownDataBits"}
ParityInputs == {"EvenParity", "UnknownParity"}
StopBitsInputs == {"TwoStop", "UnknownStopBits"}
FlowInputs == {"HardwareControl", "UnknownFlowControl"}
DeviceResults == {KErrNone, KErrGeneral}
\* The engines whose owner calls the setters in the lifecycle specification.
SetterEngines == {"e1"}

Budget ==
  /\ setCalls < MaxSetCalls
  /\ setCalls' = setCalls + 1
  /\ UNCHANGED << openCalls, selVars, cfgVars, auxVars >>

Init == InitLife /\ InitSelect /\ InitCfgIdle /\ InitAuxIdle

\* What the device calls of one open() return: the calls up to the first
\* failing one succeed, the ones after it are not made.
OpenOutcomes ==
  { [devicesLoaded |-> FALSE, rConnect |-> KErrNone, rLoad |-> KErrNone,
     rOpen |-> r, rConfig |-> KErrNone] : r \in DeviceOpenResults }
  \cup { [devicesLoaded |-> TRUE, rConnect |-> KErrGeneral, rLoad |-> KErrNone,
          rOpen |-> r, rConfig |-> KErrNone] : r \in DeviceOpenResults }
  \cup { [devicesLoaded |-> TRUE, rConnect |-> KErrNone, rLoad |-> KErrGeneral,
          rOpen |-> r, rConfig |-> KErrNone] : r \in DeviceOpenResults }
  \cup { [devicesLoaded |-> TRUE, rConnect |-> KErrNone, rLoad |-> KErrNone,
          rOpen |-> r, rConfig |-> c] :
            r \in DeviceOpenResults, c \in DeviceResults }

DoOpen ==
  \E e \in Engines, o \in OpenOutcomes :
       /\ Open(e, o.devicesLoaded, o.rConnect, o.rLoad, o.rOpen, o.rConfig)
       /\ openCalls < MaxOpens
       /\ openCalls' = openCalls + 1
       /\ UNCHANGED << setCalls, selVars, cfgVars, auxVars >>

DoClose ==
  \E e \in Engines, restore \in BOOLEAN, r \in DeviceResults :
       Close(e, restore, r)
       /\ UNCHANGED << setCalls, openCalls, selVars, cfgVars, auxVars >>

DoSetRate ==
  \E e \in SetterEngines, rate \in RateInputs, dir \in DirInputs, r \in DeviceResults :
       SetRate(e, rate, dir, r) /\ Budget

DoSetDataBits ==
  \E e \in SetterEngines, v \in DataBitsInputs, r \in DeviceResults :
       SetDataBits(e, v, r) /\ Budget

DoSetParity ==
  \E e \in SetterEngines, v \in ParityInputs, r \in DeviceResults :
       SetParity(e, v, r) /\ Budget

DoSetStopBits ==
  \E e \in SetterEngines, v \in StopBitsInputs, r \in DeviceResults :
       SetStopBits(e, v, r) /\ Budget

DoSetFlowControl ==
  \E e \in SetterEngines, v \in FlowInputs, r \in DeviceResults :
       SetFlowControl(e, v, r) /\ Budget

Next ==
  \/ DoOpen
  \/ DoClose
  \/ DoSetRate
  \/ DoSetDataBits
  \/ DoSetParity
  \/ DoSetStopBits
  \/ DoSetFlowControl

Spec == Init /\ [][Next]_vars

\* The lifecycle state right after SelEngine opened the device.
InitOpened ==
  /\ devHolder = SelEngine
  /\ devConfig = DeviceDefaultConfig
  /\ m_descriptor = [e \in Engines |-> e = SelEngine]
  /\ m_currentSettings \in [Engines -> IndeterminateConfigs]
  /\ m_restoredSettings = [m_currentSettings EXCEPT ![SelEngine] = devConfig]
  /\ configAtOpen = m_restoredSettings
  /\ options = [e \in Engines |->
                  IF e = SelEngine
                  THEN detectDefaultSettings(m_currentSettings[e])
                  ELSE InitOptions]
  /\ portOpen = [e \in Engines |-> e = SelEngine]
  /\ last = [eng |-> SelEngine, op |-> "open", ok |-> TRUE, dev |-> KErrNone,
             errors |-> << >>, devBefore |-> devConfig]
  /\ setCalls = 0
  /\ openCalls = 0

\* select() on an open port.
InitSel ==
  /\ InitOpened
  /\ m_currentSettings = [e \in Engines |-> ZeroConfig]
  /\ InitSelect
  /\ InitCfgIdle
  /\ InitAuxIdle

DoSelectCall ==
  \E timeout \in Timeouts, checkRead \in BOOLEAN, checkWrite \in BOOLEAN,
     forRead \in BOOLEAN, forWrite \in BOOLEAN, rCreateLocal \in DeviceResults,
     junk \in [Sources -> {KRequestPending, Completed}] :
       SelectCall(timeout, checkRead, checkWrite, forRead, forWrite,
                  rCreateLocal, junk)
       /\ UNCHANGED << lifeVars, cfgVars, auxVars >>

DoTimerComplete == TimerComplete /\ UNCHANGED << lifeVars, cfgVars, auxVars >>
DoReadComplete == ReadComplete /\ UNCHANGED << lifeVars, cfgVars, auxVars >>
DoWriteComplete == WriteComplete /\ UNCHANGED << lifeVars, cfgVars, auxVars >>
DoSelectWake == SelectWake /\ UNCHANGED << lifeVars, cfgVars, auxVars >>

NextSel ==
  \/ DoSelectCall
  \/ DoTimerComplete
  \/ DoReadComplete
  \/ DoWriteComplete
  \/ DoSelectWake

SpecSel == InitSel /\ [][NextSel]_vars

\* The timer the call armed expires, and a woken select() runs on to its
\* return; whether data ever arrives or the buffer ever drains is up to the
\* device.
FairSel == SpecSel /\ WF_vars(DoTimerComplete) /\ WF_vars(DoSelectWake)

\* The five setters and then the detection, for every valid configuration.
InitCfg ==
  /\ InitOpened
  /\ InitSelect
  /\ reqP \in ValidConfigs
  /\ cfgStep = 0
  /\ cfgOk = TRUE
  /\ InitAuxIdle

NextCfg ==
  \/ CfgSetRate
  \/ CfgSetDataBits
  \/ CfgSetParity
  \/ CfgSetStopBits
  \/ CfgSetFlowControl
  \/ CfgDetect

SpecCfg == InitCfg /\ [][NextCfg]_vars

\* The lifecycle, select and setter-sequence variables while a specification
\* that does not use them runs.
InitRest ==
  /\ InitOpened
  /\ m_currentSettings = [e \in Engines |-> ZeroConfig]
  /\ InitSelect
  /\ InitCfgIdle

\* Rates and tokens a caller looks up: every table rate and every token of
\* the platform enumeration, and values next to and beyond them.
RateArgs ==
  {standardRatesTable[i].rate : i \in 1..Len(standardRatesTable)}
    \cup {0, 51, 12345, 5000000}

SettingArgs == 0 .. Len(TBps)

InitTab ==
  /\ InitRest
  /\ InitDetIdle
  /\ InitSigIdle
  /\ rateArg \in RateArgs
  /\ settingArg \in SettingArgs
  /\ toSetting = << >>
  /\ toRate = << >>
  /\ backRate = << >>
  /\ backSetting = << >>
  /\ ratesRet = << >>

TabFrame == UNCHANGED << lifeVars, selVars, cfgVars, detVars, sigVars >>

DoSettingFromRate == CallSettingFromRate /\ TabFrame
DoRateFromSetting == CallRateFromSetting /\ TabFrame
DoRateFromSettingBack == CallRateFromSettingBack /\ TabFrame
DoSettingFromRateBack == CallSettingFromRateBack /\ TabFrame
DoStandardRates == CallStandardRates /\ TabFrame

NextTab ==
  \/ DoSettingFromRate
  \/ DoRateFromSetting
  \/ DoRateFromSettingBack
  \/ DoSettingFromRateBack
  \/ DoStandardRates

SpecTab == InitTab /\ [][NextTab]_vars

\* Native configurations detection is run on: every combination of the
\* handshake flags detection tests and one it does not, with a rate token
\* that has a table entry and one that has none.
HandshakeFlags ==
  {"KConfigObeyXoff", "KConfigSendXoff", "KConfigObeyCTS", "KConfigFreeRTS",
   "KConfigFailDSR", "KConfigObeyDSR"}

DetectInputs ==
  [iRate : {EBps("EBps9600"), Len(TBps)}, iDataBits : {"EData8"},
   iParity : {"EParityNone"}, iStopBits : {"EStop1"},
   iHandshake : SUBSET HandshakeFlags]

InitDet ==
  /\ InitRest
  /\ InitTabIdle
  /\ InitSigIdle
  /\ detIn \in DetectInputs
  /\ detOut = << >>

DoDetect == Detect /\ UNCHANGED << lifeVars, selVars, cfgVars, tabVars, sigVars >>

NextDet == DoDetect

SpecDet == InitDet /\ [][NextDet]_vars

\* Control lines, reset, read and write on an open port; the lines start in
\* any state.
InitIo ==
  /\ InitRest
  /\ InitTabIdle
  /\ InitDetIdle
  /\ signals \in SUBSET KSignals
  /\ linesRet = << >>
  /\ dtrSet = << >>
  /\ rtsSet = << >>
  /\ requests = {}

\* Break durations a caller asks for (milliseconds).
BreakDurations == {0, 100}

IoRest ==
  UNCHANGED << setCalls, openCalls, selVars, cfgVars, tabVars, detVars >>

DoLines == Lines(IoEngine) /\ IoRest
DoSetDtr == \E set \in BOOLEAN, r \in DeviceResults : SetDtr(IoEngine, set, r) /\ IoRest
DoSetRts == \E set \in BOOLEAN, r \in DeviceResults : SetRts(IoEngine, set, r) /\ IoRest
DoReset == \E r \in DeviceResults : Reset(IoEngine, r) /\ IoRest
DoRead == \E err \in DeviceResults : Read(IoEngine, err) /\ IoRest
DoWrite == \E err \in DeviceResults : Write(IoEngine, err) /\ IoRest
DoSendBreak == \E duration \in BreakDurations : SendBreak(IoEngine, duration) /\ IoRest
DoBreakComplete ==
  BreakComplete /\ UNCHANGED << selVars, cfgVars, tabVars, detVars >>

NextIo ==
  \/ DoLines
  \/ DoSetDtr
  \/ DoSetRts
  \/ DoReset
  \/ DoRead
  \/ DoWrite
  \/ DoSendBreak
  \/ DoBreakComplete

SpecIo == InitIo /\ [][NextIo]_vars

(* ------------------------------- claims ------------------------------- *)

\* C1: whenever open() returns failure, the engine holds no open device
\* handle and the device is not held on its behalf, so the failed attempt
\* cannot make the device refuse a later open by another engine.
C1_FailedOpenHoldsNoHandle ==
  (last.op = "open" /\ ~last.ok) =>
     (~m_descriptor[last.eng] /\ devHolder # last.eng)

\* C2: with restoreSettingsOnClose set, a close() whose restore write the
\* device accepts leaves the device with the configuration it had when
\* open() read it back, whatever the setters pushed in between.
C2_CloseRestoresOpenTimeConfig ==
  [][\A e \in Engines :
       Close(e, TRUE, KErrNone) => devConfig' = configAtOpen[e]]_vars

\* A close() that found restoreSettingsOnClose set has just put back the
\* open-time configuration over a configuration that a setter had pushed.
C2_Witness ==
  /\ last.op = "close"
  /\ last.dev = KErrNone
  /\ setCalls > 0
  /\ last.devBefore = m_currentSettings[last.eng]
  /\ last.devBefore # devConfig
  /\ devConfig = configAtOpen[last.eng]

\* C3: while engine a holds the device open, an open() by another engine b
\* that gets as far as opening the device returns false with
\* PermissionDeniedError, and leaves a's handle, saved configuration,
\* working configuration and portable options as they were.
C3_SecondOpenRefused ==
  [][\A a \in Engines, b \in Engines :
       ( /\ a # b /\ portOpen[a] /\ devHolder = a
         /\ \E r \in DeviceOpenResults, c \in {KErrNone, KErrGeneral} :
              Open(b, TRUE, KErrNone, KErrNone, r, c) )
       => /\ ~last'.ok
          /\ last'.errors = << PermissionDeniedError >>
          /\ ~m_descriptor'[b]
          /\ devHolder' = a
          /\ m_descriptor'[a] = m_descriptor[a]
          /\ m_restoredSettings'[a] = m_restoredSettings[a]
          /\ m_currentSettings'[a] = m_currentSettings[a]
          /\ options'[a] = options[a]
          /\ portOpen'[a] = portOpen[a]]_vars

\* An open() has just been refused while the other engine holds the device.
C3_Witness ==
  /\ last.op = "open"
  /\ ~last.ok
  /\ last.dev \in {KErrAccessDenied, KErrLocked}
  /\ \E a \in Engines \ {last.eng} :
       portOpen[a] /\ devHolder = a /\ m_descriptor[a]

\* C4: when select() returns false both output flags are false, and when it
\* returns true a requested source is reported ready.
C4_SelectResultInvariant ==
  selPc = "returned" =>
     IF ~selResult
     THEN ~selectForRead /\ ~selectForWrite
     ELSE \/ (selArgs.checkRead /\ selectForRead)
          \/ (selArgs.checkWrite /\ selectForWrite)

\* C5: a select() that waited reports a timeout only if the timer it armed
\* had completed and no requested source had; a requested source that had
\* completed when the statuses were inspected is reported ready and the call
\* is not reported as timed out.
C5_TimeoutOnlyWithoutReadiness ==
  (selPc = "returned" /\ selWake # NoWake) =>
     /\ ~selResult =>
          /\ "timer" \in armed
          /\ selWake.timer = Completed
          /\ ~(selArgs.checkRead /\ selWake.read = Completed)
          /\ ~(selArgs.checkWrite /\ selWake.write = Completed)
     /\ (selArgs.checkRead /\ selWake.read = Completed)
          => (selResult /\ selectForRead)
     /\ (selArgs.checkWrite /\ selWake.write = Completed)
          => (selResult /\ selectForWrite)

\* C6: when select() has returned, none of the watches it armed is still
\* outstanding.
C6_NoWatchOutstandingAfterReturn ==
  selPc = "returned" => outstanding = {}

\* C7: when select() returns true, each output flag is true exactly if its
\* source was requested and had completed when the wait woke.
C7_FlagsReflectCompletedSources ==
  (selPc = "returned" /\ selResult) =>
     /\ selectForRead <=> (selArgs.checkRead /\ selWake.read = Completed)
     /\ selectForWrite <=> (selArgs.checkWrite /\ selWake.write = Completed)

\* C8: a select() waiting with a finite timeout (zero included) eventually
\* returns, whether or not a read or write source ever completes.
C8_FiniteTimeoutReturns ==
  (selPc = "waiting" /\ selArgs.timeout >= 0) ~> (selPc = "returned")

\* C9: a select() for read only with an indefinite timeout returns only
\* after data became available, with selectForRead true and selectForWrite
\* false, and never arms the write watch.
C9_ReadOnlyIndefiniteWait ==
  ( /\ selPc = "returned"
    /\ selArgs.timeout < 0 /\ selArgs.checkRead /\ ~selArgs.checkWrite )
  => /\ selWake.read = Completed
     /\ selResult
     /\ selectForRead
     /\ ~selectForWrite
     /\ "write" \notin armed

\* C10: for every valid portable configuration, the five setters succeed and
\* detection from the resulting native settings gives the configuration
\* back, field for field.
C10_SettersThenDetectRoundTrip ==
  cfgStep = 6 =>
     /\ cfgOk
     /\ options[CfgEngine].inputRate = reqP.rate
     /\ options[CfgEngine].outputRate = reqP.rate
     /\ options[CfgEngine].dataBits = reqP.dataBits
     /\ options[CfgEngine].parity = reqP.parity
     /\ options[CfgEngine].stopBits = reqP.stopBits
     /\ options[CfgEngine].flow = reqP.flow

\* C11: the two Rate Table lookups are mutually inverse on the table: for
\* every rate R of the table rateFromSetting(settingFromRate(R)) = R, and
\* for every token T of the table settingFromRate(rateFromSetting(T)) = T.
C11_RateLookupsMutuallyInverse ==
  /\ ( /\ backRate # << >>
       /\ \E i \in 1..Len(standardRatesTable) :
            standardRatesTable[i].rate = rateArg )
     => backRate[1] = rateArg
  /\ ( /\ backSetting # << >>
       /\ \E i \in 1..Len(standardRatesTable) :
            standardRatesTable[i].setting = settingArg )
     => backSetting[1] = settingArg

\* Both round trips have run on an entry whose token is not its position in
\* the table: the rate 921600 and the token EBps1152000 came back.
C11_Witness ==
  /\ rateArg = 921600
  /\ toSetting = << EBps("EBps921600") >>
  /\ backRate = << 921600 >>
  /\ settingArg = EBps("EBps1152000")
  /\ toRate = << 1152000 >>
  /\ backSetting = << EBps("EBps1152000") >>

\* C12: a setter called with an invalid value (a rate with no table entry, a
\* direction other than AllDirections, a data-bits, parity, stop-bits or
\* flow-control value outside the supported ones) returns false, records
\* UnsupportedPortOperationError and pushes no configuration to the device.
C12_InvalidValueRejected ==
  [][\A e \in Engines, r \in DeviceResults :
       ( /\ last'.eng = e
         /\ \/ \E rate \in RateInputs, dir \in DirInputs :
                 /\ \/ dir # AllDirections
                    \/ \A i \in 1..Len(standardRatesTable) :
                         standardRatesTable[i].rate # rate
                 /\ last'.op = "setRate"
                 /\ SetRate(e, rate, dir, r)
            \/ \E v \in DataBitsInputs \ {"Data5", "Data6", "Data7", "Data8"} :
                 last'.op = "setDataBits" /\ SetDataBits(e, v, r)
            \/ \E v \in ParityInputs \ {"NoParity", "EvenParity", "OddParity",
                                        "MarkParity", "SpaceParity"} :
                 last'.op = "setParity" /\ SetParity(e, v, r)
            \/ \E v \in StopBitsInputs \ {"OneStop", "TwoStop"} :
                 last'.op = "setStopBits" /\ SetStopBits(e, v, r)
            \/ \E v \in FlowInputs \ {"NoFlowControl", "HardwareControl",
                                      "SoftwareControl"} :
                 last'.op = "setFlowControl" /\ SetFlowControl(e, v, r) )
       => /\ ~last'.ok
          /\ last'.errors = << UnsupportedPortOperationError >>
          /\ last'.dev = "none"
          /\ devConfig' = devConfig]_vars

\* setDataBits has just been refused without a device call (which happens
\* for an unsupported value only), on a port whose device carries a
\* configuration an earlier setter pushed, and that configuration is intact.
C12_Witness ==
  /\ last.op = "setDataBits"
  /\ ~last.ok
  /\ last.dev = "none"
  /\ last.errors = << UnsupportedPortOperationError >>
  /\ devConfig = last.devBefore
  /\ devConfig # configAtOpen[last.eng]

\* C13: when the exclusive device open inside open() fails, the recorded
\* error is PermissionDeniedError for permission denied, access denied and
\* locked, NoSuchDeviceError for not found, and UnknownPortError for any
\* other code; failures before the device open record UnknownPortError.
C13_OpenErrorClasses ==
  (last.op = "open" /\ ~last.ok) =>
     last.errors =
       << CASE last.dev \in {KErrPermissionDenied, KErrAccessDenied, KErrLocked}
                 -> PermissionDeniedError
            [] last.dev = KErrNotFound -> NoSuchDeviceError
            [] OTHER -> UnknownPortError >>

\* C14: after a successful open() the portable options of the owning port
\* are what detection gives for the native configuration open() read back
\* from the device.
C14_OptionsDescribeDeviceAtOpen ==
  (last.op = "open" /\ last.ok) =>
     options[last.eng] = detectDefaultSettings(configAtOpen[last.eng])

\* C15: on an open port the mask lines() returns contains DTR after a
\* successful setDtr(true) and does not after a successful setDtr(false),
\* whatever setRts calls came in between, and the same for RTS and setDtr.
C15_LinesReportDtrRts ==
  (last.op = "lines" /\ linesRet # << >>) =>
     /\ dtrSet = << TRUE >> => "Dtr" \in linesRet[1]
     /\ dtrSet = << FALSE >> => "Dtr" \notin linesRet[1]
     /\ rtsSet = << TRUE >> => "Rts" \in linesRet[1]
     /\ rtsSet = << FALSE >> => "Rts" \notin linesRet[1]

\* C16: an operation (other than lines()) that returns its failure indicator
\* because a device call failed has recorded exactly one error kind.
C16_FailedDeviceCallRecordsOneError ==
  ( /\ last.op \in {"open", "read", "write", "setDtr", "setRts", "reset",
                    "setRate", "setDataBits", "setParity", "setStopBits",
                    "setFlowControl"}
    /\ ~last.ok
    /\ last.dev \notin {"none", KErrNone} )
  => /\ Len(last.errors) = 1
     /\ last.errors[1] \in {UnknownPortError, NoSuchDeviceError,
                            PermissionDeniedError,
                            UnsupportedPortOperationError, IoError}

\* C17: close() always releases the device handle, with or without a
\* restore and whether or not the restore write succeeds; the device gets
\* the saved configuration when restoreSettingsOnClose is set and the write
\* is accepted, and keeps its configuration when the flag is clear.
C17_CloseAlwaysReleases ==
  last.op = "close" =>
     /\ ~m_descriptor[last.eng]
     /\ devHolder # last.eng
     /\ last.dev = KErrNone => devConfig = m_restoredSettings[last.eng]
     /\ last.dev = "none" => devConfig = last.devBefore

\* A close() whose restore write the device refused has released the handle;
\* the device still carries the configuration a setter had pushed.
C17_Witness ==
  /\ last.op = "close"
  /\ last.dev = KErrGeneral
  /\ ~m_descriptor[last.eng]
  /\ devHolder = NoEngine
  /\ devConfig = last.devBefore
  /\ devConfig # configAtOpen[last.eng]

\* C18: standardRates() returns the rates of the table, strictly ascending
\* (so without duplicates); no two entries of the table share a token; and
\* the binary search of settingFromRate finds every rate of the table at its
\* entry.
C18_StandardRatesAscendingTokensUnique ==
  ratesRet # << >> =>
     /\ Len(ratesRet[1]) = Len(standardRatesTable)
     /\ \A i \in 1..Len(standardRatesTable) :
          /\ ratesRet[1][i] = standardRatesTable[i].rate
          /\ qBinaryFind(standardRatesTable[i].rate) = i
     /\ \A i, j \in 1..Len(ratesRet[1]) : i < j => ratesRet[1][i] < ratesRet[1][j]
     /\ \A i, j \in 1..Len(standardRatesTable) :
          i # j => standardRatesTable[i].setting # standardRatesTable[j].setting

\* standardRates() has returned the whole table, with 921600 before 1152000.
C18_Witness ==
  /\ ratesRet # << >>
  /\ Len(ratesRet[1]) = Len(TBps)
  /\ \E i \in 1..(Len(ratesRet[1]) - 1) :
       ratesRet[1][i] = 921600 /\ ratesRet[1][i + 1] = 1152000

\* C19: setRate(R, AllDirections) passes rate validation for every rate R of
\* the table: with a device that accepts the push it gets as far as the push
\* and returns true.
C19_TableRatePassesValidation ==
  cfgStep = 1 =>
     /\ last.op = "setRate"
     /\ last.dev # "none"
     /\ last.ok

\* C20: flow-control detection over every handshake bitmask: Software if
\* both software-flow bits are set, whatever else is; else Hardware if both
\* hardware-flow bits are set; else None if fail-on-DSR is set; else Unknown.
C20_FlowDetectionPrecedence ==
  detOut # << >> =>
     detOut[1].flow =
       IF {"KConfigObeyXoff", "KConfigSendXoff"} \subseteq detIn.iHandshake
       THEN "SoftwareControl"
       ELSE IF {"KConfigObeyCTS", "KConfigFreeRTS"} \subseteq detIn.iHandshake
       THEN "HardwareControl"
       ELSE IF "KConfigFailDSR" \in detIn.iHandshake
       THEN "NoFlowControl"
       ELSE "UnknownFlowControl"

\* Detection has run on a bitmask with the software-flow bits, the
\* hardware-flow bits and fail-on-DSR all set, and answered Software.
C20_Witness ==
  /\ detOut # << >>
  /\ {"KConfigObeyXoff", "KConfigSendXoff", "KConfigObeyCTS", "KConfigFreeRTS",
      "KConfigFailDSR"} \subseteq detIn.iHandshake
  /\ detOut[1].flow = "SoftwareControl"

\* C21: read, write and sendBreak are blocking: when the call has returned,
\* the device request it issued is no longer outstanding; in particular
\* sendBreak returns only after its break request has completed.
C21_NoRequestOutstandingAfterReturn ==
  /\ last.op = "read" => "read" \notin requests
  /\ last.op = "write" => "write" \notin requests
  /\ last.op = "sendBreak" => "break" \notin requests

\* C22: after a successful open(), a successful setter changes only its own
\* field of the device's native configuration: every other field is what it
\* was before the call.
C22_SetterChangesOnlyOwnField ==
  ( /\ last.ok
    /\ last.op \in {"setRate", "setDataBits", "setParity", "setStopBits",
                    "setFlowControl"} )
  => /\ last.op # "setRate" => devConfig.iRate = last.devBefore.iRate
     /\ last.op # "setDataBits" => devConfig.iDataBits = last.devBefore.iDataBits
     /\ last.op # "setParity" => devConfig.iParity = last.devBefore.iParity
     /\ last.op # "setStopBits" => devConfig.iStopBits = last.devBefore.iStopBits
     /\ last.op # "setFlowControl"
          => devConfig.iHandshake = last.devBefore.iHandshake

\* C23: a setter whose value passes validation but whose push the device
\* rejects returns false with UnsupportedPortOperationError and leaves the
\* engine's working native configuration as it was.
C23_RejectedPushLeavesWorkingConfig ==
  [][\A e \in Engines, r \in DeviceResults \ {KErrNone} :
       ( \/ \E rate \in RateInputs :
              /\ settingFromRate(rate) # 0
              /\ SetRate(e, rate, AllDirections, r)
         \/ \E v \in DataBitsInputs \cap {"Data5", "Data6", "Data7", "Data8"} :
              SetDataBits(e, v, r)
         \/ \E v \in ParityInputs \cap {"NoParity", "EvenParity", "OddParity",
                                        "MarkParity", "SpaceParity"} :
              SetParity(e, v, r)
         \/ \E v \in StopBitsInputs \cap {"OneStop", "TwoStop"} :
              SetStopBits(e, v, r)
         \/ \E v \in FlowInputs \cap {"NoFlowControl", "HardwareControl",
                                      "SoftwareControl"} :
              SetFlowControl(e, v, r) )
       => /\ ~last'.ok
          /\ last'.errors = << UnsupportedPortOperationError >>
          /\ m_currentSettings'[e] = m_currentSettings[e]]_vars

====
